---- MODULE Spec2Model ----
(***************************************************************************)
(* basic_shared_string (shared_string.h): a std::shared_ptr to a const     *)
(* std::basic_string behind the read-only interface of basic_string.       *)
(* The model keeps every instance's handle (string_), the heap of payloads *)
(* the handles point to, each with the shared_ptr control block's use      *)
(* count, and the caller's own string the instances are built from.        *)
(***************************************************************************)
EXTENDS Integers, Sequences, FiniteSets, TLC

\* Number of basic_shared_string objects the program can hold at once.
NumInst == 2

Inst == 1..NumInst

\* string_.get() == nullptr
Null == 0

\* Addresses make_shared can return: one more than the instances, because
\* replace_contents allocates the new payload before the old one is let go.
Payloads == 1..(NumInst + 1)

\* The character sequences of the model, closed under taking slices.
Strings == {<<>>, <<"a">>, <<"b">>, <<"a", "b">>}

\* static const size_type npos = (size_t)-1: the largest size value; here the
\* largest integer of the checker.
npos == 2147483647

\* Arguments of substr(pos, count).
Positions == 0..2
Counts == (0..2) \cup {npos}

VARIABLES
  alive,    \* the constructed, not yet destroyed instances
  string_,  \* string_[i]: the handle of instance i, Null or a payload
  heap,     \* heap[p]: the payload at address p and its control block
  buf,      \* the caller's own string (const CharT* / string_type argument)
  stream,   \* the std::basic_istream operator>> reads from
  last,     \* the call that ran last, and whether its object's payload had
            \* other owners when it began
  thread,   \* thread[t]: where thread t is inside a call, and its locals
  ret       \* what the last accessor call returned

vars == <<alive, string_, heap, buf, stream, last, thread, ret>>

\* A thread outside every call: it holds no pointer and has read nothing.
IdleThread ==
  [pc |-> "idle", ptr |-> Null, fresh |-> Null, seen |-> <<>>, expect |-> <<>>]

\* No accessor has returned yet.
NoValue == [kind |-> "none", num |-> 0, ch |-> ""]

\* std::basic_string(const CharT*), basic_string(const basic_string&): a
\* string object that owns a copy of the characters s.
string_type(s) == [owned |-> TRUE, chars |-> s]

\* The characters a string object holds.
CharsOf(o) == IF o.owned THEN o.chars ELSE buf

\* A payload address that holds nothing.
FreeCell == [allocated |-> FALSE, use_count |-> 0, content |-> string_type(<<>>)]

FreePayloads == {p \in Payloads : ~heap[p].allocated}

AllocatedPayloads == {p \in Payloads : heap[p].allocated}

\* The address the next allocation returns: the lowest free one. The class
\* only ever compares handles, so which free address it is makes no
\* difference to it.
NewPayload == {p \in FreePayloads : \A q \in FreePayloads : p <= q}

Min(a, b) == IF a <= b THEN a ELSE b

-----------------------------------------------------------------------------
(* std::shared_ptr and std::make_shared                                    *)

\* shared_ptr copy: one more owner of p.
Acquire(h, p) ==
  IF p = Null THEN h ELSE [h EXCEPT ![p].use_count = @ + 1]

\* A release that counts down but never frees the payload.
ReleaseLeaks(h, p) ==
  IF p = Null THEN h ELSE [h EXCEPT ![p].use_count = @ - 1]

\* shared_ptr release: one owner fewer; the last one frees the payload.
Release(h, p) ==
  IF p = Null THEN h
  ELSE IF h[p].use_count = 1 THEN [h EXCEPT ![p] = FreeCell]
  ELSE [h EXCEPT ![p].use_count = @ - 1]

\* std::make_shared<const string_type>(std::move(s)) at address p: the
\* payload is the string object s.
make_shared(h, p, s) ==
  [h EXCEPT ![p] = [allocated |-> TRUE, use_count |-> 1, content |-> s]]

-----------------------------------------------------------------------------
(* basic_shared_string: private part and read accessors                    *)

\* A replace_contents that writes the new characters into the payload the
\* object already has, and allocates only when it has none.
replace_contents_in_place(i, newString) ==
  IF string_[i] # Null
  THEN /\ heap' = [heap EXCEPT ![string_[i]].content = newString]
       /\ UNCHANGED string_
  ELSE \E p \in NewPayload :
         /\ string_' = [string_ EXCEPT ![i] = p]
         /\ heap' = make_shared(heap, p, newString)

\* A replace_contents that interns: it binds to a live payload that already
\* holds the same characters when there is one.
replace_contents_interned(i, newString) ==
  LET same == {q \in Payloads : heap[q].allocated /\ heap[q].content = newString}
  IN IF same # {}
     THEN \E q \in same :
            /\ string_' = [string_ EXCEPT ![i] = q]
            /\ heap' = Release(Acquire(heap, q), string_[i])
     ELSE \E p \in NewPayload :
            /\ string_' = [string_ EXCEPT ![i] = p]
            /\ heap' = Release(make_shared(heap, p, newString), string_[i])

\* string_ = std::make_shared<const string_type>(std::move(newString));
\* the new payload exists before the assignment lets the old one go.
replace_contents(i, newString) ==
  \E p \in NewPayload :
    /\ string_' = [string_ EXCEPT ![i] = p]
    /\ heap' = Release(make_shared(heap, p, newString), string_[i])

\* A copy that allocates a payload of its own for the copied characters.
share_handle_deep(i, s) ==
  IF string_[s] = Null
  THEN /\ string_' = [string_ EXCEPT ![i] = Null]
       /\ heap' = Release(heap, string_[i])
  ELSE \E p \in NewPayload :
         /\ string_' = [string_ EXCEPT ![i] = p]
         /\ heap' = Release(make_shared(heap, p, heap[string_[s]].content), string_[i])

\* A copy that assigns the characters through the handle (*string_ = *s.string_)
\* when the object already has a payload.
share_handle_through(i, s) ==
  IF string_[i] # Null /\ string_[s] # Null
  THEN /\ heap' = [heap EXCEPT ![string_[i]].content = heap[string_[s]].content]
       /\ UNCHANGED string_
  ELSE /\ string_' = [string_ EXCEPT ![i] = string_[s]]
       /\ heap' = Release(Acquire(heap, string_[s]), string_[i])

\* string_ = s.string_;
share_handle(i, s) ==
  /\ string_' = [string_ EXCEPT ![i] = string_[s]]
  /\ heap' = Release(Acquire(heap, string_[s]), string_[i])

\* const string_type& str() const
str(i) ==
  IF string_[i] # Null THEN CharsOf(heap[string_[i]].content) ELSE <<>>

size(i) == Len(str(i))

empty(i) == Len(str(i)) = 0

\* A substr that takes the count but starts at the first character.
StdSubstrFromStart(s, pos, count) ==
  SubSeq(s, 1, Min(count, Len(s) - pos))

\* std::basic_string::substr(pos, count), for pos <= size()
StdSubstr(s, pos, count) ==
  SubSeq(s, pos + 1, pos + Min(count, Len(s) - pos))

\* std::operator==(basic_string, basic_string): same size, same characters
StdEq(x, y) ==
  /\ Len(x) = Len(y)
  /\ \A k \in 1..Len(x) : x[k] = y[k]

\* string_.use_count() > 1
Shared(i) == string_[i] # Null /\ heap[string_[i]].use_count > 1

\* The call op on object i has run.
Called(op, i) == last' = [op |-> op, shared |-> Shared(i)]

-----------------------------------------------------------------------------
(* The caller's own string                                                 *)

\* The caller changes its string, or destroys it and builds another.
CallerWrite(c) ==
  /\ buf' = c
  /\ last' = [op |-> "caller_write", shared |-> FALSE]
  /\ UNCHANGED <<alive, string_, heap, stream, thread, ret>>

-----------------------------------------------------------------------------
(* Constructors and the destructor                                         *)

\* A default constructor that allocates an empty payload for the new object.
DefaultConstructAllocates(i) ==
  /\ i \notin alive
  /\ Called("ctor", i)
  /\ alive' = alive \cup {i}
  /\ replace_contents(i, string_type(<<>>))
  /\ UNCHANGED <<buf, stream, thread, ret>>

\* basic_shared_string()
DefaultConstruct(i) ==
  /\ i \notin alive
  /\ Called("ctor", i)
  /\ alive' = alive \cup {i}
  /\ UNCHANGED <<string_, heap, buf, stream, thread, ret>>

\* basic_shared_string(const CharT * s)
ConstructFromPtr(i, c) ==
  /\ i \notin alive
  /\ Called("ctor_ptr", i)
  /\ alive' = alive \cup {i}
  /\ replace_contents(i, string_type(c))
  /\ UNCHANGED <<stream, thread, ret>>

\* basic_shared_string(const string_type& s)
ConstructFromString(i, c) ==
  /\ i \notin alive
  /\ Called("ctor_str", i)
  /\ alive' = alive \cup {i}
  /\ replace_contents(i, string_type(c))
  /\ UNCHANGED <<stream, thread, ret>>

\* basic_shared_string(string_type&& s): the caller's string is left in a
\* valid but unspecified state.
ConstructFromMovedString(i, c) ==
  /\ i \notin alive
  /\ Called("ctor_move", i)
  /\ alive' = alive \cup {i}
  /\ replace_contents(i, string_type(c))
  /\ UNCHANGED <<stream, thread, ret>>

\* basic_shared_string(const basic_shared_string& s)
CopyConstruct(i, s) ==
  /\ i \notin alive
  /\ s \in alive
  /\ Called("ctor_copy", i)
  /\ alive' = alive \cup {i}
  /\ share_handle(i, s)
  /\ UNCHANGED <<buf, stream, thread, ret>>

\* ~basic_shared_string(): the member string_ is destroyed.
Destroy(i) ==
  /\ i \in alive
  /\ Called("dtor", i)
  /\ alive' = alive \ {i}
  /\ string_' = [string_ EXCEPT ![i] = Null]
  /\ heap' = Release(heap, string_[i])
  /\ UNCHANGED <<buf, stream, thread, ret>>

-----------------------------------------------------------------------------
(* Assignment, clear, swap                                                 *)

\* operator=(const basic_shared_string& s)
AssignCopy(i, s) ==
  /\ i \in alive
  /\ s \in alive
  /\ Called("assign_copy", i)
  /\ share_handle(i, s)
  /\ UNCHANGED <<alive, buf, stream, thread, ret>>

\* operator=(const string_type& str)
AssignString(i, c) ==
  /\ i \in alive
  /\ Called("assign_str", i)
  /\ replace_contents(i, string_type(c))
  /\ UNCHANGED <<alive, stream, thread, ret>>

\* operator=(string_type&& str)
AssignMovedString(i, c) ==
  /\ i \in alive
  /\ Called("assign_move", i)
  /\ replace_contents(i, string_type(c))
  /\ UNCHANGED <<alive, stream, thread, ret>>

\* An assignment that builds the new string and never stores it.
AssignPtrDropped(i, c) ==
  /\ i \in alive
  /\ Called("assign_ptr", i)
  /\ UNCHANGED <<alive, string_, heap, stream, thread, ret>>

\* operator=(const CharT* s)
AssignPtr(i, c) ==
  /\ i \in alive
  /\ Called("assign_ptr", i)
  /\ replace_contents(i, string_type(c))
  /\ UNCHANGED <<alive, stream, thread, ret>>

\* void clear() { s.string_ = nullptr; }
\* No s is declared in clear(): the statement resets the handle of whatever
\* object the name s denotes where the template is instantiated, which may
\* or may not be *this.
clear(i) ==
  /\ i \in alive
  /\ Called("clear", i)
  /\ \E s \in alive :
       /\ string_' = [string_ EXCEPT ![s] = Null]
       /\ heap' = Release(heap, string_[s])
  /\ UNCHANGED <<alive, buf, stream, thread, ret>>

\* std::shared_ptr::swap: the two handles of f exchanged.
swap_handles(f, i, rhs) == [f EXCEPT ![i] = f[rhs], ![rhs] = f[i]]

\* A swap that assigns: only *this takes the other's handle.
swap_one_way(i, rhs) ==
  /\ i \in alive
  /\ rhs \in alive
  /\ Called("swap", i)
  /\ share_handle(i, rhs)
  /\ UNCHANGED <<alive, buf, stream, thread, ret>>

\* void swap(basic_shared_string& rhs): this->string_.swap(rhs.string_)
swap(i, rhs) ==
  /\ i \in alive
  /\ rhs \in alive
  /\ Called("swap", i)
  /\ string_' = swap_handles(string_, i, rhs)
  /\ UNCHANGED <<alive, heap, buf, stream, thread, ret>>

-----------------------------------------------------------------------------
(* substr                                                                  *)

\* A substr without the whole-range case: it always builds a new string.
substr_always_new(i, r, pos, count) ==
  /\ i \in alive
  /\ r \notin alive
  /\ IF pos > Len(str(i))
     THEN /\ Called("substr_throw", i)
          /\ UNCHANGED <<alive, string_, heap>>
     ELSE /\ Called(IF pos = 0 /\ (count = npos \/ count >= Len(str(i)))
                    THEN "substr_whole" ELSE "substr_part", i)
          /\ alive' = alive \cup {r}
          /\ replace_contents(r, string_type(StdSubstr(str(i), pos, count)))
  /\ UNCHANGED <<buf, stream, thread, ret>>

\* substr(pos, count): the returned object r is *this copied when the range
\* is the whole content, else built from str().substr(pos, count), which
\* throws std::out_of_range when pos > size().
substr(i, r, pos, count) ==
  /\ i \in alive
  /\ r \notin alive
  /\ IF pos = 0 /\ (count = npos \/ count >= Len(str(i)))
     THEN /\ Called("substr_whole", i)
          /\ alive' = alive \cup {r}
          /\ share_handle(r, i)
     ELSE IF pos > Len(str(i))
     THEN /\ Called("substr_throw", i)
          /\ UNCHANGED <<alive, string_, heap>>
     ELSE /\ Called("substr_part", i)
          /\ alive' = alive \cup {r}
          /\ replace_contents(r, string_type(StdSubstr(str(i), pos, count)))
  /\ UNCHANGED <<buf, stream, thread, ret>>

-----------------------------------------------------------------------------
(* Comparison and hashing                                                  *)

\* A comparison of the handles instead of the characters.
operator_eq_identity(lhs, rhs) == string_[lhs] = string_[rhs]

\* operator==(shared, shared): lhs.str() == rhs.str()
operator_eq(lhs, rhs) == StdEq(str(lhs), str(rhs))

\* operator==(shared, const CharT*): operator==(lhs.str(), rhs)
operator_eq_ptr(lhs, c) == StdEq(str(lhs), c)

CharCode(ch) == CASE ch = "a" -> 97 [] ch = "b" -> 98 [] OTHER -> 32

\* std::hash<std::string>: a function of the characters alone (a 16-bit
\* multiplicative hash stands for the library's).
RECURSIVE StdHash(_)
StdHash(s) ==
  IF s = <<>> THEN 5381
  ELSE (StdHash(SubSeq(s, 1, Len(s) - 1)) * 33 + CharCode(s[Len(s)])) % 65536

\* std::hash<basic_shared_string>: hash<std::string>()(key.str())
hash(key) == StdHash(str(key))

-----------------------------------------------------------------------------
(* operator+                                                               *)

\* A concatenation that hands out the left operand's handle when the right
\* operand is empty.
ConcatInstInstShares(lhs, rhs, res) ==
  /\ lhs \in alive
  /\ rhs \in alive
  /\ res \notin alive
  /\ str(lhs) \o str(rhs) \in Strings
  /\ Called("concat", lhs)
  /\ alive' = alive \cup {res}
  /\ IF str(rhs) = <<>>
     THEN share_handle(res, lhs)
     ELSE replace_contents(res, string_type(str(lhs) \o str(rhs)))
  /\ UNCHANGED <<buf, stream, thread, ret>>

\* operator+(shared, shared): a new object res built from lhs.str() + rhs.str()
ConcatInstInst(lhs, rhs, res) ==
  /\ lhs \in alive
  /\ rhs \in alive
  /\ res \notin alive
  /\ str(lhs) \o str(rhs) \in Strings
  /\ Called("concat", lhs)
  /\ alive' = alive \cup {res}
  /\ replace_contents(res, string_type(str(lhs) \o str(rhs)))
  /\ UNCHANGED <<buf, stream, thread, ret>>

\* operator+(shared, string_type / const CharT* / CharT)
ConcatInstRaw(lhs, c, res) ==
  /\ lhs \in alive
  /\ res \notin alive
  /\ str(lhs) \o c \in Strings
  /\ Called("concat_raw", lhs)
  /\ alive' = alive \cup {res}
  /\ replace_contents(res, string_type(str(lhs) \o c))
  /\ UNCHANGED <<buf, stream, thread, ret>>

\* operator+(string_type / const CharT* / CharT, shared)
ConcatRawInst(c, rhs, res) ==
  /\ rhs \in alive
  /\ res \notin alive
  /\ c \o str(rhs) \in Strings
  /\ Called("raw_concat", rhs)
  /\ alive' = alive \cup {res}
  /\ replace_contents(res, string_type(c \o str(rhs)))
  /\ UNCHANGED <<buf, stream, thread, ret>>

-----------------------------------------------------------------------------
(* operator>>                                                              *)

Space == " "

\* The stream's characters from the first that is not whitespace.
RECURSIVE SkipWs(_)
SkipWs(d) ==
  IF d # <<>> /\ Head(d) = Space THEN SkipWs(Tail(d)) ELSE d

\* An extraction that takes one character instead of the run up to the next
\* whitespace.
WordLenOne(d) ==
  IF d = <<>> \/ Head(d) = Space THEN 0 ELSE 1

\* The length of the run of characters up to the next whitespace or the end.
RECURSIVE WordLen(_)
WordLen(d) ==
  IF d = <<>> \/ Head(d) = Space THEN 0 ELSE 1 + WordLen(Tail(d))

StreamGood == ~stream.eof /\ ~stream.fail

\* std::operator>>(is, temp): what temp holds afterwards. temp starts empty
\* and stays so when the stream is not good or holds only whitespace.
Extracted ==
  IF StreamGood
  THEN SubSeq(SkipWs(stream.data), 1, WordLen(SkipWs(stream.data)))
  ELSE <<>>

\* std::operator>>(is, temp): the stream afterwards. Reaching the end sets
\* eofbit; extracting nothing sets failbit.
AfterExtract ==
  IF ~StreamGood THEN [stream EXCEPT !.fail = TRUE]
  ELSE LET d == SkipWs(stream.data)
           n == WordLen(d)
       IN [data |-> SubSeq(d, n + 1, Len(d)),
           eof  |-> (n = Len(d)),
           fail |-> (n = 0)]

\* A stream input that assigns only what a successful extraction gave, and
\* leaves the object alone otherwise.
StreamInGuarded(i) ==
  /\ i \in alive
  /\ Called("stream_in", i)
  /\ IF AfterExtract.fail
     THEN UNCHANGED <<string_, heap>>
     ELSE replace_contents(i, string_type(Extracted))
  /\ stream' = AfterExtract
  /\ UNCHANGED <<alive, buf, thread, ret>>

\* operator>>(is, str): temp is read from the stream, then str = temp.
StreamIn(i) ==
  /\ i \in alive
  /\ Called("stream_in", i)
  /\ replace_contents(i, string_type(Extracted))
  /\ stream' = AfterExtract
  /\ UNCHANGED <<alive, buf, thread, ret>>

-----------------------------------------------------------------------------

\* What the stream holds at the start: two words.
StreamInput == <<"a", " ", "b">>

Init ==
  /\ alive = {}
  /\ string_ = [i \in Inst |-> Null]
  /\ heap = [p \in Payloads |-> FreeCell]
  /\ buf = <<>>
  /\ stream = [data |-> StreamInput, eof |-> FALSE, fail |-> FALSE]
  /\ last = [op |-> "none", shared |-> FALSE]
  /\ thread = [t \in Inst |-> IdleThread]
  /\ ret = NoValue

\* Every operation but stream input, on arguments that are temporaries of
\* the caller.
Next ==
  \/ \E i \in Inst : DefaultConstruct(i)
  \/ \E i \in Inst, c \in Strings : ConstructFromPtr(i, c) /\ UNCHANGED buf
  \/ \E i \in Inst, c \in Strings : ConstructFromString(i, c) /\ UNCHANGED buf
  \/ \E i \in Inst, c \in Strings : ConstructFromMovedString(i, c) /\ UNCHANGED buf
  \/ \E i, s \in Inst : CopyConstruct(i, s)
  \/ \E i \in Inst : Destroy(i)
  \/ \E i, s \in Inst : AssignCopy(i, s)
  \/ \E i \in Inst, c \in Strings : AssignString(i, c) /\ UNCHANGED buf
  \/ \E i \in Inst, c \in Strings : AssignMovedString(i, c) /\ UNCHANGED buf
  \/ \E i \in Inst, c \in Strings : AssignPtr(i, c) /\ UNCHANGED buf
  \/ \E i \in Inst : clear(i)
  \/ \E i, rhs \in Inst : swap(i, rhs)
  \/ \E i, r \in Inst, pos \in Positions, count \in Counts : substr(i, r, pos, count)
  \/ \E lhs, rhs, res \in Inst : ConcatInstInst(lhs, rhs, res)
  \/ \E lhs, res \in Inst, c \in Strings : ConcatInstRaw(lhs, c, res)
  \/ \E rhs, res \in Inst, c \in Strings : ConcatRawInst(c, rhs, res)

Spec == Init /\ [][Next]_vars

\* The same with stream input.
NextAll ==
  \/ Next
  \/ \E i \in Inst : StreamIn(i)

SpecAll == Init /\ [][NextAll]_vars

-----------------------------------------------------------------------------
(* The same constructors and assignments on a string the caller keeps, and *)
(* goes on changing.                                                       *)

InitCaller ==
  /\ alive = {}
  /\ string_ = [i \in Inst |-> Null]
  /\ heap = [p \in Payloads |-> FreeCell]
  /\ buf \in Strings
  /\ stream = [data |-> StreamInput, eof |-> FALSE, fail |-> FALSE]
  /\ last = [op |-> "none", shared |-> FALSE]
  /\ thread = [t \in Inst |-> IdleThread]
  /\ ret = NoValue

NextCaller ==
  \/ \E c \in Strings : CallerWrite(c)
  \/ \E i \in Inst : ConstructFromPtr(i, buf) /\ UNCHANGED buf
  \/ \E i \in Inst : ConstructFromString(i, buf) /\ UNCHANGED buf
  \/ \E i \in Inst : ConstructFromMovedString(i, buf) /\ buf' \in Strings
  \/ \E i \in Inst : AssignString(i, buf) /\ UNCHANGED buf
  \/ \E i \in Inst : AssignMovedString(i, buf) /\ buf' \in Strings
  \/ \E i \in Inst : AssignPtr(i, buf) /\ UNCHANGED buf
  \/ \E i, s \in Inst : CopyConstruct(i, s)
  \/ \E i \in Inst : Destroy(i)

SpecCaller == InitCaller /\ [][NextCaller]_vars

-----------------------------------------------------------------------------
(* Construction, copies and swap, then construction and operator+, among    *)
(* one object more, so that an operation on two objects has a third to      *)
(* leave alone.                                                             *)

MoreInst == 1..(NumInst + 1)

InitWide ==
  /\ alive = {}
  /\ string_ = [i \in MoreInst |-> Null]
  /\ heap = [p \in Payloads |-> FreeCell]
  /\ buf = <<>>
  /\ stream = [data |-> StreamInput, eof |-> FALSE, fail |-> FALSE]
  /\ last = [op |-> "none", shared |-> FALSE]
  /\ thread = [t \in MoreInst |-> IdleThread]
  /\ ret = NoValue

\* The strings the swapped objects are built from.
SwapStrings == {<<"b">>, <<"a", "b">>}

NextSwap ==
  \/ \E i \in MoreInst : DefaultConstruct(i)
  \/ \E i \in MoreInst, c \in SwapStrings : ConstructFromPtr(i, c) /\ UNCHANGED buf
  \/ \E i, s \in MoreInst : CopyConstruct(i, s)
  \/ \E i \in MoreInst : Destroy(i)
  \/ \E i, rhs \in MoreInst : swap(i, rhs)

SpecSwap == InitWide /\ [][NextSwap]_vars

NextConcat ==
  \/ \E i \in MoreInst : DefaultConstruct(i)
  \/ \E i \in MoreInst, c \in Strings : ConstructFromPtr(i, c) /\ UNCHANGED buf
  \/ \E i \in MoreInst : Destroy(i)
  \/ \E lhs, rhs, res \in MoreInst : ConcatInstInst(lhs, rhs, res)
  \/ \E lhs, res \in MoreInst, c \in Strings : ConcatInstRaw(lhs, c, res)
  \/ \E rhs, res \in MoreInst, c \in Strings : ConcatRawInst(c, rhs, res)

SpecConcat == InitWide /\ [][NextConcat]_vars

-----------------------------------------------------------------------------
(* The same calls as threads run them: a call is a sequence of steps, and   *)
(* the steps of different threads interleave. A reference count changes in  *)
(* one atomic step (the control block's counter is atomic); the shared_ptr  *)
(* object string_ itself is plain memory.                                   *)

\* The characters stored at address p.
PayloadChars(p) == IF p = Null THEN <<>> ELSE CharsOf(heap[p].content)

\* The most characters a read of released memory goes on for.
MaxGarbage == 2

\* str() in thread t on object x: string_.get() is loaded.
ReadLoad(t, x) ==
  /\ thread[t].pc = "idle"
  /\ x \in alive
  /\ thread' = [thread EXCEPT ![t] =
       [pc |-> "read", ptr |-> string_[x], fresh |-> Null,
        seen |-> <<>>, expect |-> PayloadChars(string_[x])]]
  /\ UNCHANGED <<alive, string_, heap, buf, stream, last, ret>>

\* The thread reads the next character through the pointer it loaded. When
\* the payload has been released the read is of freed memory: any character.
ReadChar(t) ==
  /\ thread[t].pc = "read"
  /\ LET p == thread[t].ptr
         n == Len(thread[t].seen)
     IN IF p = Null \/ heap[p].allocated
        THEN /\ n < Len(PayloadChars(p))
             /\ thread' = [thread EXCEPT ![t].seen = Append(@, PayloadChars(p)[n + 1])]
        ELSE /\ n < MaxGarbage
             /\ \E ch \in {"a", "b"} :
                  thread' = [thread EXCEPT ![t].seen = Append(@, ch)]
  /\ UNCHANGED <<alive, string_, heap, buf, stream, last, ret>>

\* The thread has read up to the end of the string.
ReadDone(t) ==
  /\ thread[t].pc = "read"
  /\ LET p == thread[t].ptr
     IN (p = Null \/ heap[p].allocated)
          => Len(thread[t].seen) = Len(PayloadChars(p))
  /\ thread' = [thread EXCEPT ![t] = IdleThread]
  /\ UNCHANGED <<alive, string_, heap, buf, stream, last, ret>>

\* basic_shared_string y(x) in thread t, first half of string_ = s.string_:
\* the pointer of x is loaded.
CopyLoad(t, x) ==
  /\ thread[t].pc = "idle"
  /\ x \in alive
  /\ thread' = [thread EXCEPT ![t] =
       [pc |-> "copy_loaded", ptr |-> string_[x], fresh |-> Null,
        seen |-> <<>>, expect |-> <<>>]]
  /\ UNCHANGED <<alive, string_, heap, buf, stream, last, ret>>

\* Second half: the use count of the loaded payload goes up by one,
\* atomically. On a released payload the increment lands in freed memory.
CopyAcquire(t) ==
  /\ thread[t].pc = "copy_loaded"
  /\ LET p == thread[t].ptr
     IN heap' = IF p # Null /\ heap[p].allocated THEN Acquire(heap, p) ELSE heap
  /\ thread' = [thread EXCEPT ![t].pc = "copy_held"]
  /\ UNCHANGED <<alive, string_, buf, stream, last, ret>>

\* x = c in thread t, replace_contents: make_shared builds the new payload.
RebindAlloc(t, x, c) ==
  /\ thread[t].pc = "idle"
  /\ x \in alive
  /\ \E p \in NewPayload :
       /\ heap' = make_shared(heap, p, string_type(c))
       /\ thread' = [thread EXCEPT ![t] =
            [pc |-> "rebind_new", ptr |-> Null, fresh |-> p,
             seen |-> <<>>, expect |-> <<>>]]
  /\ UNCHANGED <<alive, string_, buf, stream, last, ret>>

\* string_ = (the new shared_ptr): the new pointer is stored into x and the
\* old one is left with the thread to release.
RebindStore(t, x) ==
  /\ thread[t].pc = "rebind_new"
  /\ x \in alive
  /\ string_' = [string_ EXCEPT ![x] = thread[t].fresh]
  /\ thread' = [thread EXCEPT ![t] =
       [pc |-> "release", ptr |-> string_[x], fresh |-> Null,
        seen |-> <<>>, expect |-> <<>>]]
  /\ UNCHANGED <<alive, heap, buf, stream, last, ret>>

\* ~basic_shared_string() of x in thread t: the object is gone and its
\* handle is left with the thread to release.
DestroyBegin(t, x) ==
  /\ thread[t].pc = "idle"
  /\ x \in alive
  /\ alive' = alive \ {x}
  /\ string_' = [string_ EXCEPT ![x] = Null]
  /\ thread' = [thread EXCEPT ![t] =
       [pc |-> "release", ptr |-> string_[x], fresh |-> Null,
        seen |-> <<>>, expect |-> <<>>]]
  /\ UNCHANGED <<heap, buf, stream, last, ret>>

\* A release that frees the payload whatever the count it reads.
ReleaseDecFrees(t) ==
  /\ thread[t].pc \in {"release", "copy_held"}
  /\ LET p == thread[t].ptr
     IN IF p = Null \/ ~heap[p].allocated
        THEN /\ thread' = [thread EXCEPT ![t] = IdleThread]
             /\ UNCHANGED heap
        ELSE /\ heap' = [heap EXCEPT ![p].use_count = @ - 1]
             /\ thread' = [thread EXCEPT ![t].pc = "free"]
  /\ UNCHANGED <<alive, string_, buf, stream, last, ret>>

\* shared_ptr release of the handle the thread holds (the old handle of an
\* assignment or a destroyed object, or the copy it made): the use count
\* goes down by one, atomically, and the thread that took it to zero goes on
\* to free the payload.
ReleaseDec(t) ==
  /\ thread[t].pc \in {"release", "copy_held"}
  /\ LET p == thread[t].ptr
     IN IF p = Null \/ ~heap[p].allocated
        THEN /\ thread' = [thread EXCEPT ![t] = IdleThread]
             /\ UNCHANGED heap
        ELSE /\ heap' = [heap EXCEPT ![p].use_count = @ - 1]
             /\ thread' = IF heap[p].use_count = 1
                          THEN [thread EXCEPT ![t].pc = "free"]
                          ELSE [thread EXCEPT ![t] = IdleThread]
  /\ UNCHANGED <<alive, string_, buf, stream, last, ret>>

\* The payload is deleted.
Free(t) ==
  /\ thread[t].pc = "free"
  /\ heap' = [heap EXCEPT ![thread[t].ptr] = FreeCell]
  /\ thread' = [thread EXCEPT ![t] = IdleThread]
  /\ UNCHANGED <<alive, string_, buf, stream, last, ret>>

\* What the threads assign.
ThreadStrings == {<<>>, <<"b">>}

\* Every object is a copy of one object of content "ab"; thread t owns
\* object t.
InitThreads ==
  /\ alive = Inst
  /\ string_ = [i \in Inst |-> 1]
  /\ heap = [p \in Payloads |->
       IF p = 1
       THEN [allocated |-> TRUE, use_count |-> NumInst,
             content |-> string_type(<<"a", "b">>)]
       ELSE FreeCell]
  /\ buf = <<>>
  /\ stream = [data |-> StreamInput, eof |-> FALSE, fail |-> FALSE]
  /\ last = [op |-> "none", shared |-> FALSE]
  /\ thread = [t \in Inst |-> IdleThread]
  /\ ret = NoValue

\* Each thread reads, copies, assigns to and destroys its own object.
NextThreads ==
  \/ \E t \in Inst : ReadLoad(t, t)
  \/ \E t \in Inst : ReadChar(t)
  \/ \E t \in Inst : ReadDone(t)
  \/ \E t \in Inst : CopyLoad(t, t)
  \/ \E t \in Inst : CopyAcquire(t)
  \/ \E t \in Inst, c \in ThreadStrings : RebindAlloc(t, t, c)
  \/ \E t \in Inst : RebindStore(t, t)
  \/ \E t \in Inst : DestroyBegin(t, t)
  \/ \E t \in Inst : ReleaseDec(t)
  \/ \E t \in Inst : Free(t)

SpecThreads == InitThreads /\ [][NextThreads]_vars

\* The object two threads use at once, the thread that assigns to it and the
\* thread that reads and copies it.
RacedObject == 1
Writer == 1
Reader == 2

InitRace ==
  /\ alive = {RacedObject}
  /\ string_ = [i \in Inst |-> IF i = RacedObject THEN 1 ELSE Null]
  /\ heap = [p \in Payloads |->
       IF p = 1
       THEN [allocated |-> TRUE, use_count |-> 1,
             content |-> string_type(<<"a", "b">>)]
       ELSE FreeCell]
  /\ buf = <<>>
  /\ stream = [data |-> StreamInput, eof |-> FALSE, fail |-> FALSE]
  /\ last = [op |-> "none", shared |-> FALSE]
  /\ thread = [t \in Inst |-> IdleThread]
  /\ ret = NoValue

\* One thread assigns to the object while another reads and copies it, with
\* no lock between them.
NextRace ==
  \/ \E c \in ThreadStrings : RebindAlloc(Writer, RacedObject, c)
  \/ RebindStore(Writer, RacedObject)
  \/ ReadLoad(Reader, RacedObject)
  \/ ReadChar(Reader)
  \/ ReadDone(Reader)
  \/ CopyLoad(Reader, RacedObject)
  \/ CopyAcquire(Reader)
  \/ \E t \in {Writer, Reader} : ReleaseDec(t)
  \/ \E t \in {Writer, Reader} : Free(t)

SpecRace == InitRace /\ [][NextRace]_vars

-----------------------------------------------------------------------------
(* Element access and search                                               *)

\* An at() without the range check, as operator[] is.
at_unchecked(i, pos) ==
  [kind |-> "value", num |-> 0,
   ch |-> IF pos < Len(str(i)) THEN str(i)[pos + 1] ELSE ""]

\* std::basic_string::at(pos): the character at pos, std::out_of_range when
\* pos >= size().
StdAt(s, pos) ==
  IF pos < Len(s)
  THEN [kind |-> "value", num |-> 0, ch |-> s[pos + 1]]
  ELSE [kind |-> "out_of_range", num |-> 0, ch |-> ""]

\* CharT at(size_type pos) const: str().at(pos)
at(i, pos) == StdAt(str(i), pos)

\* A call of at(pos) on object i.
At(i, pos) ==
  /\ i \in alive
  /\ Called("at", i)
  /\ ret' = at(i, pos)
  /\ UNCHANGED <<alive, string_, heap, buf, stream, thread>>

\* pat lies in s at index i.
Occurs(s, pat, i) ==
  /\ i <= Len(s) - Len(pat)
  /\ SubSeq(s, i + 1, i + Len(pat)) = pat

RECURSIVE ScanForward(_, _, _)
ScanForward(s, pat, i) ==
  IF i > Len(s) - Len(pat) THEN npos
  ELSE IF Occurs(s, pat, i) THEN i
  ELSE ScanForward(s, pat, i + 1)

\* std::basic_string::find(pat, pos)
StdFind(s, pat, pos) == ScanForward(s, pat, pos)

RECURSIVE ScanBackward(_, _, _)
ScanBackward(s, pat, i) ==
  IF Occurs(s, pat, i) THEN i
  ELSE IF i = 0 THEN npos
  ELSE ScanBackward(s, pat, i - 1)

\* std::basic_string::rfind(pat, pos)
StdRfind(s, pat, pos) ==
  IF Len(pat) > Len(s) THEN npos
  ELSE ScanBackward(s, pat, Min(pos, Len(s) - Len(pat)))

\* An index returned by a search.
Found(n) == [kind |-> "value", num |-> n, ch |-> ""]

\* A call that cannot be compiled returns nothing.
IllFormed == [kind |-> "ill_formed", num |-> 0, ch |-> ""]

\* size_type find(const string_type& str, size_type pos) const
\*   { return str().find(str, pos); }
\* In the body str is the parameter, a string_type, which has no operator():
\* the call str() is ill-formed, and a program that uses this overload does
\* not build.
find_string(i, pat, pos) == IllFormed

\* find(const CharT* s, size_type pos, size_type count): the pattern is the
\* first count characters of the buffer s.
find_buffer(i, s, pos, count) == Found(StdFind(str(i), SubSeq(s, 1, count), pos))

\* find(const CharT* s, size_type pos): the pattern is s up to its terminator.
find_ptr(i, s, pos) == Found(StdFind(str(i), s, pos))

\* find(CharT ch, size_type pos)
find_char(i, ch, pos) == Found(StdFind(str(i), <<ch>>, pos))

\* rfind(CharT ch, size_type pos)
rfind_char(i, ch, pos) == Found(StdRfind(str(i), <<ch>>, pos))

FindString(i, pat, pos) ==
  /\ i \in alive
  /\ Called("find_string", i)
  /\ ret' = find_string(i, pat, pos)
  /\ UNCHANGED <<alive, string_, heap, buf, stream, thread>>

\* The buffer holds at least count characters.
FindBuffer(i, s, pos, count) ==
  /\ i \in alive
  /\ count <= Len(s)
  /\ Called("find_buffer", i)
  /\ ret' = find_buffer(i, s, pos, count)
  /\ UNCHANGED <<alive, string_, heap, buf, stream, thread>>

FindPtr(i, s, pos) ==
  /\ i \in alive
  /\ Called("find_ptr", i)
  /\ ret' = find_ptr(i, s, pos)
  /\ UNCHANGED <<alive, string_, heap, buf, stream, thread>>

FindChar(i, ch, pos) ==
  /\ i \in alive
  /\ Called("find_char", i)
  /\ ret' = find_char(i, ch, pos)
  /\ UNCHANGED <<alive, string_, heap, buf, stream, thread>>

RfindChar(i, ch, pos) ==
  /\ i \in alive
  /\ Called("rfind_char", i)
  /\ ret' = rfind_char(i, ch, pos)
  /\ UNCHANGED <<alive, string_, heap, buf, stream, thread>>

\* The contents searched: the strings of the model and one in which a
\* character comes twice.
AccessStrings == Strings \cup {<<"a", "b", "a">>}

\* The patterns and the characters searched for.
Patterns == {<<>>, <<"a">>, <<"b">>, <<"a", "b">>, <<"b", "a">>}
PatternChars == {"a", "b"}

\* Arguments pos of at, find and rfind.
AccessPositions == (0..3) \cup {npos}

\* Objects are built, copied and destroyed, and at() is called on them.
NextAt ==
  \/ \E i \in Inst : DefaultConstruct(i)
  \/ \E i \in Inst, c \in AccessStrings : ConstructFromPtr(i, c) /\ UNCHANGED buf
  \/ \E i, s \in Inst : CopyConstruct(i, s)
  \/ \E i \in Inst : Destroy(i)
  \/ \E i \in Inst, pos \in AccessPositions : At(i, pos)

SpecAt == Init /\ [][NextAt]_vars

\* Objects are built, copied and destroyed, and searched.
NextFind ==
  \/ \E i \in Inst : DefaultConstruct(i)
  \/ \E i \in Inst, c \in AccessStrings : ConstructFromPtr(i, c) /\ UNCHANGED buf
  \/ \E i, s \in Inst : CopyConstruct(i, s)
  \/ \E i \in Inst : Destroy(i)
  \/ \E i \in Inst, pat \in Patterns, pos \in AccessPositions : FindString(i, pat, pos)
  \/ \E i \in Inst, s \in Patterns, pos \in AccessPositions, count \in 0..2 :
       FindBuffer(i, s, pos, count)
  \/ \E i \in Inst, s \in Patterns, pos \in AccessPositions : FindPtr(i, s, pos)
  \/ \E i \in Inst, ch \in PatternChars, pos \in AccessPositions : FindChar(i, ch, pos)
  \/ \E i \in Inst, ch \in PatternChars, pos \in AccessPositions : RfindChar(i, ch, pos)

SpecFind == Init /\ [][NextFind]_vars

-----------------------------------------------------------------------------
(* operator<< and operator>> on a stream the program writes and reads back  *)

\* A stream that has just been opened: nothing in it, no state bit set.
FreshStream == [data |-> <<>>, eof |-> FALSE, fail |-> FALSE]

\* std::stringstream ss;
NewStream ==
  /\ stream' = FreshStream
  /\ last' = [op |-> "new_stream", shared |-> FALSE]
  /\ UNCHANGED <<alive, string_, heap, buf, thread, ret>>

\* operator<<(os, str): operator<<(os, str.str()). The characters are put
\* after those the stream holds; a stream that is not good takes nothing and
\* gets failbit.
StreamOut(i) ==
  /\ i \in alive
  /\ Called("stream_out", i)
  /\ stream' = IF StreamGood
               THEN [stream EXCEPT !.data = @ \o str(i)]
               ELSE [stream EXCEPT !.fail = TRUE]
  /\ UNCHANGED <<alive, string_, heap, buf, thread, ret>>

\* What the streamed objects are built from: with and without whitespace.
StreamStrings == {<<>>, <<"a", "b">>, <<"a", " ", "b">>}

InitStream ==
  /\ alive = {}
  /\ string_ = [i \in Inst |-> Null]
  /\ heap = [p \in Payloads |-> FreeCell]
  /\ buf = <<>>
  /\ stream = FreshStream
  /\ last = [op |-> "none", shared |-> FALSE]
  /\ thread = [t \in Inst |-> IdleThread]
  /\ ret = NoValue

\* Objects are built, copied and destroyed; streams are opened, written
\* while they hold nothing unread, and read.
NextStream ==
  \/ \E i \in Inst : DefaultConstruct(i)
  \/ \E i \in Inst, c \in StreamStrings : ConstructFromPtr(i, c) /\ UNCHANGED buf
  \/ \E i, s \in Inst : CopyConstruct(i, s)
  \/ \E i \in Inst : Destroy(i)
  \/ NewStream
  \/ \E i \in Inst : stream.data = <<>> /\ StreamOut(i)
  \/ \E i \in Inst : StreamIn(i)

SpecStream == InitStream /\ [][NextStream]_vars

-----------------------------------------------------------------------------
(* Properties                                                              *)

\* The characters an instance denotes: those of its payload, none without one.
Content(i) ==
  IF string_[i] = Null THEN <<>> ELSE CharsOf(heap[string_[i]].content)

\* The instances that reference payload p.
Holders(p) == {i \in alive : string_[i] = p}

\* An assignment of the characters c to b: from a pointer or an owned string.
AssignContent(b, c) ==
  AssignPtr(b, c) \/ AssignString(b, c) \/ AssignMovedString(b, c)

AssignOps == {"assign_ptr", "assign_str", "assign_move"}

ConstructOps == {"ctor_ptr", "ctor_str", "ctor_move"}

CopyOps == {"ctor_copy", "assign_copy"}

SubstrOps == {"substr_whole", "substr_part", "substr_throw"}

\* A construction of i from the characters c.
ConstructContent(i, c) ==
  ConstructFromPtr(i, c) \/ ConstructFromString(i, c) \/ ConstructFromMovedString(i, c)

\* C1. Copy isolation: in a step that assigns characters to b (those b holds
\* after it), every other instance a, a copy b was made from or not, keeps its
\* handle and observes the same content and size as before.
C1_CopyIsolation ==
  [][last'.op \in AssignOps =>
       \A b \in alive :
         AssignContent(b, Content(b)') =>
           \A a \in alive \ {b} :
             /\ string_'[a] = string_[a]
             /\ Content(a)' = Content(a)
             /\ str(a)' = str(a)
             /\ size(a)' = size(a)]_vars

\* An assignment to an instance that shared its payload has run, and the
\* other instance still holds the old payload with other characters.
C1_Witness ==
  /\ last.op \in AssignOps
  /\ last.shared
  /\ \E a, b \in alive :
       /\ string_[a] # Null /\ string_[b] # Null /\ string_[a] # string_[b]
       /\ str(a) # str(b)

\* C2, as stated. A copy binds the destination to the source's payload,
\* allocates nothing, and the payload's holder count rises by one.
C2_CountAlwaysRises ==
  [][last'.op \in CopyOps =>
     \A i, s \in Inst :
       (CopyConstruct(i, s) \/ AssignCopy(i, s))
         => /\ string_'[i] = string_[s]
            /\ AllocatedPayloads' \subseteq AllocatedPayloads
            /\ string_[s] # Null
                 => heap'[string_[s]].use_count = heap[string_[s]].use_count + 1]_vars

\* C2, amended. A copy binds the destination to the source's payload (or to
\* none) and allocates nothing; the payload's holder count rises by one when
\* the destination did not reference that payload before, and stays as it is
\* when it did (an assignment between two sharers, or to itself).
C2_CopyShares ==
  [][last'.op \in CopyOps =>
     \A i, s \in Inst :
       (CopyConstruct(i, s) \/ AssignCopy(i, s))
         => /\ string_'[i] = string_[s]
            /\ string_'[s] = string_[s]
            /\ AllocatedPayloads' \subseteq AllocatedPayloads
            /\ string_[s] # Null
                 => /\ heap'[string_[s]].allocated
                    /\ heap'[string_[s]].content = heap[string_[s]].content
                    /\ heap'[string_[s]].use_count =
                         IF string_[i] = string_[s]
                         THEN heap[string_[s]].use_count
                         ELSE heap[string_[s]].use_count + 1]_vars

\* A copy has run and two instances reference one payload held twice.
C2_Witness ==
  /\ last.op \in CopyOps
  /\ \E i, s \in alive :
       /\ i # s
       /\ string_[i] = string_[s]
       /\ string_[i] # Null
       /\ heap[string_[i]].use_count = 2
       /\ Cardinality(AllocatedPayloads) = 1

\* C3. A construction or assignment from the caller's characters binds the
\* instance to a payload that was not allocated before, that nothing else
\* references, and that holds the caller's characters as they were at the
\* call; whatever the caller does to its string in a step, every instance
\* whose handle that step does not rebind observes the same content.
C3_FreshPayload ==
  [][/\ last'.op \in AssignOps \cup ConstructOps =>
        \A i \in Inst :
          (ConstructContent(i, buf) \/ AssignContent(i, buf))
            => /\ string_'[i] # Null
               /\ ~heap[string_'[i]].allocated
               /\ heap'[string_'[i]].allocated
               /\ heap'[string_'[i]].use_count = 1
               /\ \A j \in Inst \ {i} : string_'[j] # string_'[i]
               /\ Len(Content(i)') = Len(buf)
               /\ \A k \in 1..Len(buf) : Content(i)'[k] = buf[k]
     /\ \A j \in Inst :
          string_'[j] = string_[j] => Content(j)' = Content(j)]_vars

\* Two instances hold equal characters in two payloads, and the caller has
\* since written other characters to its string.
C3_Witness ==
  /\ last.op = "caller_write"
  /\ \E i, j \in alive :
       /\ string_[i] # Null /\ string_[j] # Null /\ string_[i] # string_[j]
       /\ Content(i) = Content(j)
       /\ Content(i) # <<>>
       /\ buf # Content(i)

\* C4. Immutability: a payload allocated before and after a step holds the
\* same characters after it as before, whatever the step.
C4_Immutable ==
  [][\A p \in Payloads :
       (heap[p].allocated /\ heap'[p].allocated)
         => /\ heap'[p].content = heap[p].content
            /\ CharsOf(heap[p].content)' = CharsOf(heap[p].content)]_vars

\* A stream input into an instance that shared its payload has run, and the
\* payload still holds its characters for the other instance.
C4_Witness ==
  /\ last.op = "stream_in"
  /\ last.shared
  /\ \E a, b \in alive :
       /\ string_[a] # Null /\ string_[b] # Null /\ string_[a] # string_[b]
       /\ Content(a) = <<"a", "b">>
       /\ Content(b) = <<"b">>

\* C5. Payload lifetime: a payload is allocated exactly while some instance
\* references it, its use count is the number of those instances, and no
\* handle points at a released payload.
C5_Lifetime ==
  /\ \A p \in Payloads :
       /\ heap[p].allocated <=> Holders(p) # {}
       /\ heap[p].use_count = Cardinality(Holders(p))
  /\ \A i \in Inst :
       /\ string_[i] # Null => heap[string_[i]].allocated
       /\ i \notin alive => string_[i] = Null

\* The destructor of the only holder has run: an instance is left, no
\* payload is.
C5_Witness ==
  /\ last.op = "dtor"
  /\ ~last.shared
  /\ AllocatedPayloads = {}
  /\ \E a \in alive : string_[a] = Null

\* C6. substr(0, count) with count = npos or count >= size() returns an
\* instance with the handle of *this, and allocates nothing.
C6_WholeShares ==
  [][last'.op \in SubstrOps =>
     \A i \in alive, r \in Inst \ alive, count \in Counts :
       (/\ count = npos \/ count >= size(i)
        /\ substr(i, r, 0, count))
         => /\ r \in alive'
            /\ string_'[r] = string_[i]
            /\ string_'[i] = string_[i]
            /\ AllocatedPayloads' = AllocatedPayloads]_vars

\* A whole-range substr has run and its result shares a payload.
C6_Witness ==
  /\ last.op = "substr_whole"
  /\ \E i, r \in alive :
       /\ i # r
       /\ string_[i] = string_[r]
       /\ string_[i] # Null
       /\ size(i) = 2

\* C7. substr(pos, count) over less than the whole content returns an
\* instance with a payload that was not allocated before and is not that of
\* *this, holding min(count, size() - pos) characters, those of *this from
\* pos on; *this keeps its handle and content.
C7_PartAllocates ==
  [][last'.op \in SubstrOps =>
     \A i \in alive, r \in Inst \ alive, pos \in Positions, count \in Counts :
       (/\ \/ pos > 0 /\ pos <= size(i)
           \/ pos = 0 /\ count < size(i)
        /\ substr(i, r, pos, count))
         => /\ r \in alive'
            /\ string_'[r] # Null
            /\ string_'[r] # string_[i]
            /\ ~heap[string_'[r]].allocated
            /\ heap'[string_'[r]].use_count = 1
            /\ Len(Content(r)') = Min(count, size(i) - pos)
            /\ \A k \in 1..Len(Content(r)') : Content(r)'[k] = Content(i)[pos + k]
            /\ string_'[i] = string_[i]
            /\ Content(i)' = Content(i)]_vars

\* A partial substr has run: its result holds the second character alone.
C7_Witness ==
  /\ last.op = "substr_part"
  /\ \E i, r \in alive :
       /\ Content(i) = <<"a", "b">>
       /\ Content(r) = <<"b">>
       /\ string_[i] # string_[r]

\* C8, as stated. clear() on a leaves a with no handle, empty and of size 0,
\* and every other instance with its handle, its content and its payload.
C8_ClearResetsThis ==
  [][last'.op = "clear" =>
     \A a \in Inst :
       clear(a)
         => /\ string_'[a] = Null
            /\ empty(a)'
            /\ size(a)' = 0
            /\ \A b \in alive \ {a} :
                 /\ string_'[b] = string_[b]
                 /\ Content(b)' = Content(b)
                 /\ string_[b] # Null => heap'[string_[b]].allocated]_vars

\* C9. a == b exactly when the two contents are the same sequence, with one
\* payload, two, or none; and equal instances hash equally.
C9_ValueEquality ==
  \A a, b \in alive :
    /\ operator_eq(a, b) <=> Content(a) = Content(b)
    /\ operator_eq(a, b) => hash(a) = hash(b)
    /\ Content(a) # Content(b) => ~operator_eq(a, b)

\* Two instances built apart hold the same characters in two payloads.
C9_Witness ==
  \E a, b \in alive :
    /\ string_[a] # Null /\ string_[b] # Null /\ string_[a] # string_[b]
    /\ Content(a) = <<"a", "b">>
    /\ operator_eq(a, b)
    /\ hash(a) = hash(b)

\* C10. After s = c for characters c, s == c is true, and s == old is false
\* for the content old that s had when old differs from c; an instance
\* constructed from c satisfies s == c as well.
C10_AssignReplaces ==
  [][last'.op \in {"assign_ptr", "ctor_ptr"} =>
     \A s \in Inst, c \in Strings :
       /\ AssignPtr(s, c)
            => /\ operator_eq_ptr(s, c)'
               /\ \A old \in Strings :
                    (old = str(s) /\ old # c) => ~operator_eq_ptr(s, old)'
       /\ ConstructFromPtr(s, c) => operator_eq_ptr(s, c)']_vars

\* s = "b" has run on an instance that shared "ab" with another.
C10_Witness ==
  /\ last.op = "assign_ptr"
  /\ last.shared
  /\ \E s, a \in alive :
       /\ operator_eq_ptr(s, <<"b">>)
       /\ operator_eq_ptr(a, <<"a", "b">>)
       /\ ~operator_eq(s, a)

\* C11. A default-constructed instance has no handle and allocates nothing;
\* an instance without a handle, however it came to have none, has size 0, is
\* empty, and compares equal to and hashes as every instance of empty
\* content, one that holds a payload included.
C11_NoHandleIsEmpty ==
  [][/\ last'.op = "ctor" =>
          \A i \in Inst \ alive :
            DefaultConstruct(i)
              => /\ string_'[i] = Null
                 /\ AllocatedPayloads' = AllocatedPayloads
     /\ \A i \in alive' :
          string_'[i] = Null
            => /\ size(i)' = 0
               /\ empty(i)'
               /\ str(i)' = <<>>
               /\ \A j \in alive' :
                    Content(j)' = <<>>
                      => /\ operator_eq(i, j)'
                         /\ operator_eq(j, i)'
                         /\ hash(i)' = hash(j)']_vars

\* A swap has left an instance without a handle, next to an instance that
\* holds a payload of no characters: the two compare equal.
C11_Witness ==
  /\ last.op = "swap"
  /\ \E i, j \in alive :
       /\ string_[i] = Null
       /\ string_[j] # Null
       /\ heap[string_[j]].allocated
       /\ size(i) = 0
       /\ operator_eq(i, j)
       /\ hash(i) = hash(j)

\* C12. swap(a, b) leaves a with the handle b had and b with the handle a
\* had; the heap is as it was, so nothing is allocated or released and every
\* payload keeps its holder count; every third instance keeps its handle and
\* content; a second swap of the two, or a swap of an instance with itself,
\* gives the handles back as they were.
C12_SwapExchanges ==
  [][last'.op = "swap" =>
       \A a, b \in alive :
         swap(a, b)
           => /\ string_'[a] = string_[b]
              /\ string_'[b] = string_[a]
              /\ heap' = heap
              /\ AllocatedPayloads' = AllocatedPayloads
              /\ \A p \in Payloads :
                   /\ heap'[p].use_count = heap[p].use_count
                   /\ Cardinality(Holders(p))' = Cardinality(Holders(p))
              /\ \A c \in alive \ {a, b} :
                   /\ string_'[c] = string_[c]
                   /\ Content(c)' = Content(c)
              /\ swap_handles(string_', a, b) = string_
              /\ a = b => string_' = string_]_vars

\* A swap has run between two instances of different payloads while a third
\* instance shares the payload one of them now has.
C12_Witness ==
  /\ last.op = "swap"
  /\ \E a, b, c \in alive :
       /\ a # b /\ a # c /\ b # c
       /\ string_[a] # Null /\ string_[b] # Null /\ string_[a] # string_[b]
       /\ string_[c] = string_[a]
       /\ heap[string_[a]].use_count = 2
       /\ Content(a) = <<"a", "b">>
       /\ Content(b) = <<"b">>

\* The result res of a concatenation of l and r: a payload that was not
\* allocated before and has one holder, with the characters of l followed by
\* those of r, while every instance there was keeps its handle and content.
ConcatResult(res, l, r) ==
  /\ res \in alive'
  /\ string_'[res] # Null
  /\ ~heap[string_'[res]].allocated
  /\ heap'[string_'[res]].allocated
  /\ heap'[string_'[res]].use_count = 1
  /\ Content(res)' = l \o r
  /\ \A j \in alive :
       /\ string_'[j] # string_'[res]
       /\ string_'[j] = string_[j]
       /\ Content(j)' = Content(j)

\* C13. operator+ with an instance on either side or both returns an instance
\* of the left characters followed by the right ones in a new payload that is
\* neither operand's, an empty operand or not, and leaves the operands alone.
C13_ConcatAllocates ==
  [][/\ last'.op = "concat" =>
          \A res \in alive' \ alive, lhs, rhs \in alive :
            ConcatInstInst(lhs, rhs, res)
              => /\ ConcatResult(res, Content(lhs), Content(rhs))
                 /\ string_'[res] # string_[lhs]
                 /\ string_'[res] # string_[rhs]
     /\ last'.op = "concat_raw" =>
          \A res \in alive' \ alive, lhs \in alive, c \in Strings :
            ConcatInstRaw(lhs, c, res)
              => /\ ConcatResult(res, Content(lhs), c)
                 /\ string_'[res] # string_[lhs]
     /\ last'.op = "raw_concat" =>
          \A res \in alive' \ alive, rhs \in alive, c \in Strings :
            ConcatRawInst(c, rhs, res)
              => /\ ConcatResult(res, c, Content(rhs))
                 /\ string_'[res] # string_[rhs]]_vars

\* a + b has run with b empty: the result holds a's two characters in a
\* payload of its own.
C13_Witness ==
  /\ last.op = "concat"
  /\ \E lhs, rhs, res \in alive :
       /\ lhs # rhs /\ lhs # res /\ rhs # res
       /\ Content(lhs) = <<"a", "b">>
       /\ string_[rhs] # Null
       /\ Content(rhs) = <<>>
       /\ Content(res) = <<"a", "b">>
       /\ string_[res] # string_[lhs]
       /\ heap[string_[res]].use_count = 1

\* The threads that hold a counted reference to payload p outside any object:
\* a copy, a handle waiting to be released, a new payload not yet stored.
ThreadRefs(p) ==
  {t \in DOMAIN thread :
     \/ thread[t].pc \in {"copy_held", "release"} /\ thread[t].ptr = p
     \/ thread[t].pc = "rebind_new" /\ thread[t].fresh = p}

\* The threads about to delete payload p.
Freeing(p) == {t \in DOMAIN thread : thread[t].pc = "free" /\ thread[t].ptr = p}

\* A thread reading through a pointer reads an allocated payload that holds
\* the characters it held when the pointer was loaded, and has seen the
\* first of them so far; a thread between loading a pointer and counting
\* itself in, or holding a copy, points at an allocated payload.
ReaderSafe(t) ==
  /\ thread[t].pc = "read" =>
       /\ thread[t].ptr # Null => heap[thread[t].ptr].allocated
       /\ PayloadChars(thread[t].ptr) = thread[t].expect
       /\ Len(thread[t].seen) <= Len(thread[t].expect)
       /\ thread[t].seen = SubSeq(thread[t].expect, 1, Len(thread[t].seen))
  /\ (thread[t].pc \in {"copy_loaded", "copy_held"} /\ thread[t].ptr # Null)
       => heap[thread[t].ptr].allocated

\* C14. Threads that each work on an object of their own, all copies of one
\* payload: every read sees the characters the payload had when the read
\* began; the use count of a payload is the number of objects and threads
\* that reference it; a payload stays allocated while that number is
\* positive, is deleted by the one thread that took the count to zero, and is
\* not allocated once nothing references it and nobody is deleting it.
C14_ConcurrentSharing ==
  /\ \A t \in Inst : ReaderSafe(t)
  /\ \A i \in alive : string_[i] # Null => heap[string_[i]].allocated
  /\ \A p \in Payloads :
       /\ heap[p].use_count = Cardinality(Holders(p)) + Cardinality(ThreadRefs(p))
       /\ heap[p].use_count > 0 => heap[p].allocated
       /\ heap[p].allocated => (heap[p].use_count > 0 \/ Freeing(p) # {})
       /\ Cardinality(Freeing(p)) <= 1
       /\ Freeing(p) # {} => (heap[p].allocated /\ heap[p].use_count = 0)

\* One thread is deleting the first payload, which every object has let go
\* of, while another thread is half way through reading the payload its
\* object was rebound to.
C14_Witness ==
  \E t, u \in Inst :
    /\ t # u
    /\ thread[t].pc = "free"
    /\ thread[t].ptr = 1
    /\ thread[u].pc = "read"
    /\ thread[u].ptr \notin {Null, 1}
    /\ Len(thread[u].seen) = 1
    /\ u \in alive

\* C15, as stated. While one thread assigns to an object and another reads
\* or copies the same object, the reader's pointer is to an allocated payload
\* whose characters are the object's old or new content as it was when the
\* pointer was loaded, and what it has read is the beginning of that content.
C15_RaceFree ==
  ReaderSafe(Reader)

\* C16. at(pos) returns the character at index pos when pos < size() and
\* signals std::out_of_range for every other pos, so for every pos on an
\* instance without a handle or of no characters; the call changes no
\* instance and no payload.
C16_AtChecked ==
  [][last'.op = "at" =>
       \A i \in alive, pos \in AccessPositions :
         At(i, pos)
           => /\ pos < size(i) =>
                   /\ ret'.kind = "value"
                   /\ ret'.ch = Content(i)[pos + 1]
              /\ pos >= size(i) => ret'.kind = "out_of_range"
              /\ size(i) = 0 => ret'.kind = "out_of_range"
              /\ string_' = string_
              /\ heap' = heap
              /\ alive' = alive]_vars

\* at() has signalled out of range where no instance has a handle.
C16_Witness ==
  /\ last.op = "at"
  /\ ret.kind = "out_of_range"
  /\ alive # {}
  /\ \A i \in alive : string_[i] = Null

\* The indices from pos on at which pat occurs in s.
Matches(s, pat, pos) == {k \in 0..Len(s) : k >= pos /\ Occurs(s, pat, k)}

\* The smallest of them, or npos.
SmallestMatch(s, pat, pos) ==
  IF Matches(s, pat, pos) = {} THEN npos
  ELSE CHOOSE k \in Matches(s, pat, pos) : \A j \in Matches(s, pat, pos) : k <= j

\* The largest index up to pos at which pat occurs in s, or npos.
LargestMatch(s, pat, pos) ==
  LET M == {k \in 0..Len(s) : k <= pos /\ Occurs(s, pat, k)}
  IN IF M = {} THEN npos ELSE CHOOSE k \in M : \A j \in M : k >= j

\* C17, as stated. find(pattern, pos) returns the smallest index from pos on
\* at which the pattern occurs, or npos, the same for a pattern passed as a
\* string, as a buffer with a length, as a null-terminated buffer and as a
\* single character; rfind of a character returns the largest index up to pos
\* that holds it; no search changes an instance or a payload.
C17_FindOverloads ==
  [][/\ last'.op = "find_string" =>
          \A i \in alive, pat \in Patterns, pos \in AccessPositions :
            FindString(i, pat, pos)
              => ret' = Found(SmallestMatch(Content(i), pat, pos))
     /\ last'.op = "find_ptr" =>
          \A i \in alive, pat \in Patterns, pos \in AccessPositions :
            FindPtr(i, pat, pos)
              => ret' = Found(SmallestMatch(Content(i), pat, pos))
     /\ last'.op = "find_buffer" =>
          \A i \in alive, s \in Patterns, pos \in AccessPositions, count \in 0..2 :
            FindBuffer(i, s, pos, count)
              => ret' = Found(SmallestMatch(Content(i), SubSeq(s, 1, count), pos))
     /\ last'.op = "find_char" =>
          \A i \in alive, ch \in PatternChars, pos \in AccessPositions :
            FindChar(i, ch, pos)
              => ret' = Found(SmallestMatch(Content(i), <<ch>>, pos))
     /\ last'.op = "rfind_char" =>
          \A i \in alive, ch \in PatternChars, pos \in AccessPositions :
            RfindChar(i, ch, pos)
              => ret' = Found(LargestMatch(Content(i), <<ch>>, pos))
     /\ last'.op \in {"find_string", "find_ptr", "find_buffer", "find_char", "rfind_char"}
          => /\ string_' = string_
             /\ heap' = heap
             /\ alive' = alive]_vars

\* No character of s is whitespace.
NoSpace(s) == \A k \in 1..Len(s) : s[k] # Space

\* C18. Written to a newly opened stream, an instance leaves its characters
\* in the stream and stays as it was; when the stream is then read into an
\* instance without a handle, that instance gets a payload that was not
\* allocated before, and its content is that of every instance whose
\* characters, free of whitespace, are what the stream held: it is the
\* content of the written instance, which the read leaves unchanged.
C18_StreamRoundTrip ==
  [][/\ (last'.op = "stream_out" /\ stream = FreshStream) =>
          \A w \in alive :
            StreamOut(w)
              => /\ stream'.data = Content(w)
                 /\ ~stream'.fail /\ ~stream'.eof
                 /\ string_' = string_
                 /\ heap' = heap
     /\ (last'.op = "stream_in" /\ last.op = "stream_out" /\ StreamGood) =>
          \A r \in alive :
            (string_[r] = Null /\ StreamIn(r))
              => /\ string_'[r] # Null
                 /\ ~heap[string_'[r]].allocated
                 /\ heap'[string_'[r]].use_count = 1
                 /\ \A w \in alive \ {r} :
                      /\ string_'[w] = string_[w]
                      /\ Content(w)' = Content(w)
                      /\ (Content(w) = stream.data /\ NoSpace(Content(w)))
                           => Content(r)' = Content(w)]_vars

\* An instance of content "ab" was written to a new stream and the stream
\* was read into an instance that had no handle: both hold "ab", in two
\* payloads, and the stream is at its end.
C18_Witness ==
  /\ last.op = "stream_in"
  /\ ~last.shared
  /\ stream = [data |-> <<>>, eof |-> TRUE, fail |-> FALSE]
  /\ \E w, r \in alive :
       /\ string_[w] # Null /\ string_[r] # Null /\ string_[w] # string_[r]
       /\ Content(w) = <<"a", "b">>
       /\ Content(r) = <<"a", "b">>

\* C19. A stream input that extracts nothing, the stream being at its end,
\* failed or holding nothing but whitespace, still assigns: the target gets a
\* payload that was not allocated before, of no characters, whatever it held,
\* and every other instance keeps its handle, its content and its payload.
C19_FailedInputRebinds ==
  [][(last'.op = "stream_in" /\ Extracted = <<>>) =>
       \A i \in alive :
         StreamIn(i)
           => /\ stream'.fail
              /\ string_'[i] # Null
              /\ string_'[i] # string_[i]
              /\ ~heap[string_'[i]].allocated
              /\ heap'[string_'[i]].use_count = 1
              /\ Content(i)' = <<>>
              /\ size(i)' = 0
              /\ empty(i)'
              /\ \A j \in alive \ {i} :
                   /\ string_'[j] = string_[j]
                   /\ Content(j)' = Content(j)
                   /\ string_[j] # Null => heap'[string_[j]].allocated]_vars

\* A read from a stream at its end has run on an instance that shared "ab"
\* with another: it now holds an empty payload of its own, the other still
\* holds "ab".
C19_Witness ==
  /\ last.op = "stream_in"
  /\ last.shared
  /\ stream.fail
  /\ \E i, j \in alive :
       /\ string_[i] # Null /\ string_[j] # Null /\ string_[i] # string_[j]
       /\ Content(i) = <<>>
       /\ Content(j) = <<"a", "b">>
       /\ heap[string_[j]].use_count = 1

====
